---- MODULE Spec2Model ----
(***************************************************************************)
(* Model of the replay memory (agilerl/components/replay_buffer.py) and of *)
(* the learning step of RainbowDQN (agilerl/algorithms/dqn_rainbow.py).    *)
(*                                                                         *)
(* Spec      : the ReplayBuffer object under any interleaving of its       *)
(*             public operations.                                          *)
(* SpecLoss  : _dqn_loss applied to agents, networks, batches and gammas   *)
(*             drawn from bounded sets.                                    *)
(* SpecLearn : one learn call on an agent whose hyperparameters and        *)
(*             networks are drawn from bounded sets.                       *)
(* SpecInit  : RainbowDQN.__init__ on arguments drawn from bounded sets,   *)
(*             invalid ones included.                                      *)
(* SpecAgent : one operation (get_action, _dqn_loss, learn, or up to       *)
(*             MaxCalls soft_update calls) on a constructed agent.         *)
(*                                                                         *)
(* Indices of memory are 1-based here (memory[1] is the leftmost, oldest   *)
(* element of the deque).                                                  *)
(***************************************************************************)
EXTENDS Integers, Sequences, FiniteSets, TLC

VARIABLES
    memory_size,   \* maxlen given to deque() by ReplayBuffer.__init__
    memory,        \* self.memory, oldest element first
    counter,       \* self.counter
    inserted,      \* history: every experience handed to _add, in call order
    last,          \* the last buffer call: name, arguments, result, pre-state
    hp,            \* the hyperparameters RainbowDQN.__init__ stores on self
    actor,         \* self.actor: parameters and noise of the online network
    actor_target,  \* self.actor_target: parameters and noise of the target
    learn_steps,   \* number of learn calls made so far
    calls,         \* number of soft_update calls made from outside learn
    out            \* the last agent call: name, arguments, result, pre-state

bufferVars == <<memory_size, memory, counter, inserted, last>>

agentVars == <<hp, actor, actor_target, learn_steps, calls, out>>

vars == <<memory_size, memory, counter, inserted, last,
          hp, actor, actor_target, learn_steps, calls, out>>

----------------------------------------------------------------------------
(* Bounds of the model *)

MaxMemorySize == 3     \* largest memory_size a buffer is built with
MaxInserts == 4        \* cap on the number of _add calls in one behaviour
MaxVect == 2           \* largest number of environments of a vectorised insert
MaxSampleK == 3        \* largest batch_size passed to sample

\* The transitions the environment hands over are tagged; the n-th insertion
\* of a behaviour stores either a transition not seen before (the n-th tag) or
\* a second copy of the first one, so that memories with and without equal
\* entries both occur.
Letters == <<"A", "B", "C", "D", "E", "F", "G", "H">>

Tags == {Letters[i] : i \in 1..Len(Letters)}

TagChoices(n) == {Letters[1], Letters[n]}

----------------------------------------------------------------------------
(* Experiences *)

TagIndex(t) == CHOOSE i \in 1..Len(Letters) : Letters[i] = t

\* experience(state, action, reward, next_state, done): the namedtuple built
\* by _add. The field values of the tagged transitions are fixed per tag.
experience(state, action, reward, next_state, done) ==
    [state |-> state, action |-> action, reward |-> reward,
     next_state |-> next_state, done |-> done]

TaggedArgs(t) ==
    <<t, TagIndex(t) % 2, TagIndex(t) - 2, TagIndex(t) + 1, TagIndex(t) % 2 = 0>>

\* The five aligned columns (states, actions, rewards, next_states, dones)
\* of a sequence of tagged transitions.
Column(ts, f) == [i \in 1..Len(ts) |-> TaggedArgs(ts[i])[f]]

Min(a, b) == IF a <= b THEN a ELSE b

----------------------------------------------------------------------------
(* deque(maxlen=memory_size).append *)

DequeAppendUnbounded(mem, maxlen, e) == Append(mem, e)

DequeAppendDropNewest(mem, maxlen, e) ==
    IF Len(mem) >= maxlen THEN mem ELSE Append(mem, e)

DequeAppend(mem, maxlen, e) ==
    IF maxlen = 0 THEN <<>>
    ELSE IF Len(mem) = maxlen THEN Append(Tail(mem), e)
    ELSE Append(mem, e)

\* ReplayBuffer._add on the pair (memory, counter)
_add(buf, state, action, reward, next_state, done) ==
    [buf EXCEPT !.memory =
        DequeAppend(buf.memory, buf.maxlen,
                    experience(state, action, reward, next_state, done))]

\* ReplayBuffer.save2memorySingleEnv
save2memorySingleEnv(buf, state, action, reward, next_state, done) ==
    LET b1 == _add(buf, state, action, reward, next_state, done)
    IN  [b1 EXCEPT !.counter = b1.counter + 1]

\* zip(states, actions, rewards, next_states, dones): stops at the shortest
ZipLen(states, actions, rewards, next_states, dones) ==
    Min(Len(states), Min(Len(actions), Min(Len(rewards),
        Min(Len(next_states), Len(dones)))))

RECURSIVE VectLoop(_, _, _, _, _, _, _, _)
VectLoop(buf, states, actions, rewards, next_states, dones, i, n) ==
    IF i > n THEN buf
    ELSE LET b1 == _add(buf, states[i], actions[i], rewards[i],
                        next_states[i], dones[i])
             b2 == [b1 EXCEPT !.counter = b1.counter + 1]
         IN  VectLoop(b2, states, actions, rewards, next_states, dones, i + 1, n)

RECURSIVE VectLoopReversed(_, _, _, _, _, _, _)
VectLoopReversed(buf, states, actions, rewards, next_states, dones, i) ==
    IF i < 1 THEN buf
    ELSE LET b1 == _add(buf, states[i], actions[i], rewards[i],
                        next_states[i], dones[i])
             b2 == [b1 EXCEPT !.counter = b1.counter + 1]
         IN  VectLoopReversed(b2, states, actions, rewards, next_states, dones, i - 1)

save2memoryVectEnvsReversed(buf, states, actions, rewards, next_states, dones) ==
    VectLoopReversed(buf, states, actions, rewards, next_states, dones,
                     ZipLen(states, actions, rewards, next_states, dones))

save2memoryVectEnvsCountOnce(buf, states, actions, rewards, next_states, dones) ==
    LET n == ZipLen(states, actions, rewards, next_states, dones)
        b == VectLoop(buf, states, actions, rewards, next_states, dones, 1, n)
    IN  [b EXCEPT !.counter = buf.counter + (IF n > 0 THEN 1 ELSE 0)]

\* ReplayBuffer.save2memoryVectEnvs
save2memoryVectEnvs(buf, states, actions, rewards, next_states, dones) ==
    VectLoop(buf, states, actions, rewards, next_states, dones, 1,
             ZipLen(states, actions, rewards, next_states, dones))

\* ReplayBuffer.save2memory
save2memory(buf, state, action, reward, next_state, done, is_vectorised) ==
    IF is_vectorised
    THEN save2memoryVectEnvs(buf, state, action, reward, next_state, done)
    ELSE save2memorySingleEnv(buf, state, action, reward, next_state, done)

----------------------------------------------------------------------------
(* sample *)

\* k positions of a population of n elements, no position twice, in draw order
Draws(n, k) ==
    {s \in [1..k -> 1..n] : \A i, j \in 1..k : (i # j) => (s[i] # s[j])}

random_sample_with_replacement(n, k) ==
    IF 0 <= k /\ k <= n THEN [1..k -> 1..n] ELSE {}

random_sample_short(n, k) == Draws(n, Min(k, n))

\* random.sample(population, k) on a population of n elements: the set of the
\* draws it can return; empty when it raises ValueError ("Sample larger than
\* population or is negative").
random_sample(n, k) ==
    IF 0 <= k /\ k <= n THEN Draws(n, k) ELSE {}

\* np.stack / np.vstack of the list of one field of the drawn experiences:
\* ValueError on an empty list.
np_stack_ok(xs) == Len(xs) > 0

\* .astype(np.uint8) ... .float() of the done flags
AsUint8(d) == IF d = TRUE THEN 1 ELSE 0

Raised(mem, err) == [status |-> err, batch |-> <<>>, idx |-> <<>>, memory |-> mem]

RemoveAt(mem, drawn) ==
    LET keep == {i \in 1..Len(mem) : \A j \in 1..Len(drawn) : drawn[j] # i}
        F[i \in 0..Len(mem)] ==
            IF i = 0 THEN <<>>
            ELSE IF i \in keep THEN Append(F[i - 1], mem[i]) ELSE F[i - 1]
    IN  F[Len(mem)]

\* The body of sample after the draw idx: the five stacked columns, or the
\* error, and the memory the call leaves behind.
SampleBatch(mem, idx) ==
    LET experiences == [i \in 1..Len(idx) |-> mem[idx[i]]]
    IN  IF ~np_stack_ok(experiences)
        THEN Raised(mem, "ValueError")
        ELSE [status |-> "ok",
              batch |-> << [i \in 1..Len(idx) |-> experiences[i].state],
                           [i \in 1..Len(idx) |-> experiences[i].action],
                           [i \in 1..Len(idx) |-> experiences[i].reward],
                           [i \in 1..Len(idx) |-> experiences[i].next_state],
                           [i \in 1..Len(idx) |-> AsUint8(experiences[i].done)] >>,
              idx |-> idx,
              memory |-> mem]

sample_popping(mem, batch_size) ==
    IF random_sample(Len(mem), batch_size) = {}
    THEN {Raised(mem, "ValueError")}
    ELSE {[SampleBatch(mem, idx) EXCEPT !.memory = RemoveAt(mem, idx)] :
             idx \in random_sample(Len(mem), batch_size)}

\* ReplayBuffer.sample: the set of its possible outcomes
sample(mem, batch_size) ==
    IF random_sample(Len(mem), batch_size) = {}
    THEN {Raised(mem, "ValueError")}
    ELSE {SampleBatch(mem, idx) : idx \in random_sample(Len(mem), batch_size)}

----------------------------------------------------------------------------
(* Arithmetic of the tensors. Floating-point numbers are modelled as exact   *)
(* rationals <<numerator, denominator>> in lowest terms, denominator > 0.    *)

RECURSIVE GCD(_, _)
GCD(a, b) == IF b = 0 THEN a ELSE GCD(b, a % b)

Abs(a) == IF a < 0 THEN -a ELSE a

Rat(n, d) ==
    LET g == GCD(Abs(n), Abs(d))
        s == IF d < 0 THEN -1 ELSE 1
    IN  <<(s * n) \div g, (s * d) \div g>>

RInt(i) == <<i, 1>>
RAdd(x, y) ==
    IF x[1] = 0 THEN y
    ELSE IF y[1] = 0 THEN x
    ELSE Rat(x[1] * y[2] + y[1] * x[2], x[2] * y[2])
RSub(x, y) == Rat(x[1] * y[2] - y[1] * x[2], x[2] * y[2])
RMul(x, y) ==
    IF x[1] = 0 \/ y[1] = 0 THEN <<0, 1>> ELSE Rat(x[1] * y[1], x[2] * y[2])
RDiv(x, y) == Rat(x[1] * y[2], x[2] * y[1])
RNeg(x) == <<-x[1], x[2]>>
RLt(x, y) == x[1] * y[2] < y[1] * x[2]
RLe(x, y) == x[1] * y[2] <= y[1] * x[2]
RFloor(x) == x[1] \div x[2]
RCeil(x) == -((-x[1]) \div x[2])

RECURSIVE RPow(_, _)
RPow(x, n) == IF n = 0 THEN RInt(1) ELSE RMul(x, RPow(x, n - 1))

\* Tensor.clamp(min, max)
clamp(x, lo, hi) == IF RLt(x, lo) THEN lo ELSE IF RLt(hi, x) THEN hi ELSE x

\* sum of f[lo..hi], halving the range
RECURSIVE RSumRange(_, _, _)
RSumRange(f, lo, hi) ==
    IF lo > hi THEN <<0, 1>>
    ELSE IF lo = hi THEN f[lo]
    ELSE LET mid == (lo + hi) \div 2
         IN  RAdd(RSumRange(f, lo, mid), RSumRange(f, mid + 1, hi))

\* Tensor.sum() of a tensor of n entries held as a sequence
RSum(f, n) == RSumRange(f, 1, n)

\* The tensor <<F(0), ..., F(n-1)>> as a sequence: entry p of the tensor is at
\* position p + 1 of the sequence
RECURSIVE TabRange(_, _, _)
TabRange(F(_), lo, hi) ==
    IF lo > hi THEN <<>>
    ELSE IF lo = hi THEN <<F(lo)>>
    ELSE LET mid == (lo + hi) \div 2
         IN  TabRange(F, lo, mid) \o TabRange(F, mid + 1, hi)

Tensor(F(_), n) == TabRange(F, 0, n - 1)

Zero == RInt(0)
One == RInt(1)
Half == <<1, 2>>
Quarter == <<1, 4>>

----------------------------------------------------------------------------
(* Hyperparameters and support: RainbowDQN.__init__ *)

\* torch.linspace(v_min, v_max, num_atoms)
linspace(lo, hi, n) ==
    [k \in 0..(n - 1) |->
        IF n = 1 THEN lo
        ELSE RAdd(lo, RDiv(RMul(RInt(k), RSub(hi, lo)), RInt(n - 1)))]

support(h) == linspace(h.v_min, h.v_max, h.num_atoms)

delta_z(h) == RDiv(RSub(h.v_max, h.v_min), RInt(h.num_atoms - 1))

----------------------------------------------------------------------------
(* The function approximator: an external module with parameters and noise *)
(* that returns, per observation and action, a categorical distribution    *)
(* over the atoms, its logarithm, or its expected value.                   *)

NumActions == 2
Actions == 0..(NumActions - 1)
Observations == {0, 1}

Mid(n) == (n - 1) \div 2

\* The shapes of distribution a network can put out over n atoms
Shape(kind, n) ==
    [k \in 0..(n - 1) |->
        CASE kind = 0 -> IF k = Mid(n) THEN One ELSE Zero
          [] kind = 1 -> IF n = 1 THEN One
                         ELSE IF k = 0 \/ k = n - 1 THEN Half ELSE Zero
          [] kind = 2 -> IF k = n - 1 THEN One ELSE Zero
          [] OTHER    -> IF n < 3 THEN (IF k = 0 THEN One ELSE Zero)
                         ELSE IF k = Mid(n) THEN Half
                         ELSE IF k = 0 \/ k = n - 1 THEN Quarter ELSE Zero]

\* Which shape the network with parameters theta and noise z puts out
NetKind(net, obs, a) ==
    (RFloor(net.params[1]) + 2 * RFloor(net.params[2]) + net.noise + obs + a) % 4

\* module(obs, q=False): the distributions of every action
forward_dist(net, h, obs) ==
    [a \in Actions |-> Shape(NetKind(net, obs, a), h.num_atoms)]

\* module(obs, q=False, log=True); the logarithm is taken to base 2 and the
\* probability is clamped from below so that log 0 stays finite
Log2(p) ==
    CASE p = One -> Zero
      [] p = Half -> RInt(-1)
      [] p = Quarter -> RInt(-2)
      [] OTHER -> RInt(-10)

forward_log(net, h, obs) ==
    [a \in Actions |->
        [k \in 0..(h.num_atoms - 1) |-> Log2(forward_dist(net, h, obs)[a][k])]]

\* module(obs): the expected value of every action, sum_k p[k] * support[k]
forward_q(net, h, obs) ==
    [a \in Actions |->
        RSum(Tensor(LAMBDA k : RMul(forward_dist(net, h, obs)[a][k], support(h)[k]),
                    h.num_atoms),
             h.num_atoms)]

----------------------------------------------------------------------------
(* RainbowDQN._dqn_loss. A tensor of shape (B, num_atoms) is held as the     *)
(* sequence of its flat view: entry [i, k] is at position i*num_atoms+k+1.   *)

At(t, n, i, k) == t[i * n + k + 1]

\* an argmax that returns the last index holding the maximum
argmax_last(q) ==
    CHOOSE a \in Actions :
        /\ \A c \in Actions : RLe(q[c], q[a])
        /\ \A c \in Actions : (c > a) => RLt(q[c], q[a])

\* Tensor.argmax over the actions: the first index holding the maximum
argmax(q) ==
    CHOOSE a \in Actions :
        /\ \A c \in Actions : RLe(q[c], q[a])
        /\ \A c \in Actions : (c < a) => RLt(q[c], q[a])

BatchLen(batch) == Len(batch.rewards)

\* x[range(self.batch_size), index]: row i of the result comes from row
\* RowOf(bs, B, i) of x. The indexing raises unless the two index tensors
\* broadcast (bs = B or bs = 1).
IndexingOk(bs, B) == bs = B \/ bs = 1
RowOf(bs, B, i) == IF bs = B THEN i ELSE 0

next_actions_of_target(online, target, h, batch) ==
    Tensor(LAMBDA i : argmax(forward_q(target, h, batch.next_states[i + 1])),
           BatchLen(batch))

\* next_actions = self.actor(next_states).argmax(1)
next_actions(online, target, h, batch) ==
    Tensor(LAMBDA i : argmax(forward_q(online, h, batch.next_states[i + 1])),
           BatchLen(batch))

\* target_q_dist = self.actor_target(next_states, q=False)[range(bs), next_actions]
target_q_dist(target, h, batch, na) ==
    LET B == BatchLen(batch)
        N == h.num_atoms
    IN  Tensor(LAMBDA p :
                   forward_dist(target, h,
                       batch.next_states[RowOf(h.batch_size, B, p \div N) + 1])
                       [na[(p \div N) + 1]][p % N],
               B * N)

t_z_bootstrapping(h, batch, gamma) ==
    LET N == h.num_atoms
    IN  Tensor(LAMBDA p :
                   clamp(RAdd(batch.rewards[(p \div N) + 1],
                              RMul(gamma, support(h)[p % N])),
                         h.v_min, h.v_max),
               BatchLen(batch) * N)

t_z_unclamped(h, batch, gamma) ==
    LET N == h.num_atoms
    IN  Tensor(LAMBDA p :
                   RAdd(batch.rewards[(p \div N) + 1],
                        RMul(RMul(RSub(One, RInt(batch.dones[(p \div N) + 1])),
                                  gamma),
                             support(h)[p % N])),
               BatchLen(batch) * N)

\* t_z = (rewards + (1 - dones) * gamma * support).clamp(v_min, v_max)
t_z(h, batch, gamma) ==
    LET N == h.num_atoms
    IN  Tensor(LAMBDA p :
                   clamp(RAdd(batch.rewards[(p \div N) + 1],
                              RMul(RMul(RSub(One, RInt(batch.dones[(p \div N) + 1])),
                                        gamma),
                                   support(h)[p % N])),
                         h.v_min, h.v_max),
               BatchLen(batch) * N)

\* b = (t_z - v_min) / delta_z
bins(h, tz) ==
    Tensor(LAMBDA p : RDiv(RSub(tz[p + 1], h.v_min), delta_z(h)), Len(tz))

\* L = b.floor(); u = b.ceil(); L[(u > 0) * (L == u)] -= 1;
\* u[(L < num_atoms - 1) * (L == u)] += 1, the second mask read after the
\* first update
LowerNoFix(h, b) == RFloor(b)

Lower(h, b) ==
    LET l0 == RFloor(b)
        u0 == RCeil(b)
    IN  IF u0 > 0 /\ l0 = u0 THEN l0 - 1 ELSE l0

Upper(h, b) ==
    LET l1 == Lower(h, b)
        u0 == RCeil(b)
    IN  IF l1 < h.num_atoms - 1 /\ l1 = u0 THEN u0 + 1 ELSE u0

\* offset = linspace(0, (bs - 1) * num_atoms, bs).long().unsqueeze(1)
\*              .expand(bs, num_atoms), broadcast against L and u
offset(h, B, i) == RowOf(h.batch_size, B, i) * h.num_atoms

\* sum of the source[p], p in lo..hi, whose index[p] is d
RECURSIVE SumInto(_, _, _, _, _)
SumInto(index, source, d, lo, hi) ==
    IF lo > hi THEN <<0, 1>>
    ELSE IF lo = hi THEN (IF index[lo] = d THEN source[lo] ELSE <<0, 1>>)
    ELSE LET mid == (lo + hi) \div 2
         IN  RAdd(SumInto(index, source, d, lo, mid),
                  SumInto(index, source, d, mid + 1, hi))

\* the last p in lo..hi whose index[p] is d, or 0
RECURSIVE LastInto(_, _, _, _)
LastInto(index, d, lo, hi) ==
    IF lo > hi THEN 0
    ELSE IF lo = hi THEN (IF index[lo] = d THEN lo ELSE 0)
    ELSE LET mid == (lo + hi) \div 2
             right == LastInto(index, d, mid + 1, hi)
         IN  IF right # 0 THEN right ELSE LastInto(index, d, lo, mid)

index_add_overwrite(flat, index, source) ==
    Tensor(LAMBDA d : IF LastInto(index, d, 1, Len(index)) = 0 THEN flat[d + 1]
                      ELSE source[LastInto(index, d, 1, Len(index))],
           Len(flat))

\* flat.index_add_(0, index, source): every source[p] is added to
\* flat[index[p]]; entries with the same index accumulate
index_add_(flat, index, source) ==
    Tensor(LAMBDA d : RAdd(flat[d + 1], SumInto(index, source, d, 1, Len(index))),
           Len(flat))

\* L + offset and u + offset, flattened
lower_index(h, B, b) ==
    Tensor(LAMBDA p : Lower(h, b[p + 1]) + offset(h, B, p \div h.num_atoms), Len(b))

upper_index(h, B, b) ==
    Tensor(LAMBDA p : Upper(h, b[p + 1]) + offset(h, B, p \div h.num_atoms), Len(b))

\* target_q_dist * (u.float() - b) and target_q_dist * (b - L.float())
lower_mass(h, tq, b) ==
    Tensor(LAMBDA p : RMul(tq[p + 1], RSub(RInt(Upper(h, b[p + 1])), b[p + 1])),
           Len(b))

upper_mass(h, tq, b) ==
    Tensor(LAMBDA p : RMul(tq[p + 1], RSub(b[p + 1], RInt(Lower(h, b[p + 1])))),
           Len(b))

\* every index handed to index_add_ lies inside proj_dist.view(-1)
IndicesInRange(index, size) ==
    \A p \in 1..Len(index) : index[p] \in 0..(size - 1)

\* proj_dist after the two index_add_ calls
proj_dist(h, B, tq, b) ==
    LET n == B * h.num_atoms
        zeros == Tensor(LAMBDA p : Zero, n)
        first == index_add_(zeros, lower_index(h, B, b), lower_mass(h, tq, b))
    IN  index_add_(first, upper_index(h, B, b), upper_mass(h, tq, b))

\* log_p = self.actor(states, q=False, log=True)[range(bs), actions]
log_p(online, h, batch) ==
    LET B == BatchLen(batch)
        N == h.num_atoms
    IN  Tensor(LAMBDA p :
                   forward_log(online, h,
                       batch.states[RowOf(h.batch_size, B, p \div N) + 1])
                       [batch.actions[(p \div N) + 1]][p % N],
               B * N)

DqnRaised(err) ==
    [status |-> err, next_actions |-> <<>>, target_q_dist |-> <<>>,
     t_z |-> <<>>, b |-> <<>>, L |-> <<>>, u |-> <<>>, proj_dist |-> <<>>,
     log_p |-> <<>>, elementwise_loss |-> <<>>]

\* elementwise_loss = -(proj_dist * log_p).sum(1)
cross_entropy(h, B, pd, lp) ==
    Tensor(LAMBDA i :
               RNeg(RSum(Tensor(LAMBDA k : RMul(At(pd, h.num_atoms, i, k),
                                                At(lp, h.num_atoms, i, k)),
                                h.num_atoms),
                         h.num_atoms)),
           B)

\* _dqn_loss(states, actions, rewards, next_states, dones, gamma): the loss
\* vector with the intermediate tensors, or the error raised
_dqn_loss(online, target, h, batch, gamma) ==
    LET B == BatchLen(batch)
    IN  IF ~IndexingOk(h.batch_size, B) THEN DqnRaised("IndexError")
        ELSE
        LET na == next_actions(online, target, h, batch)
            tq == target_q_dist(target, h, batch, na)
            tz == t_z(h, batch, gamma)
            b == bins(h, tz)
        IN  IF \/ ~IndicesInRange(lower_index(h, B, b), B * h.num_atoms)
               \/ ~IndicesInRange(upper_index(h, B, b), B * h.num_atoms)
            THEN DqnRaised("IndexError")
            ELSE
            LET pd == proj_dist(h, B, tq, b)
                lp == log_p(online, h, batch)
            IN  [status |-> "ok",
                 next_actions |-> na,
                 target_q_dist |-> tq,
                 t_z |-> tz,
                 b |-> b,
                 L |-> Tensor(LAMBDA p : Lower(h, b[p + 1]), Len(b)),
                 u |-> Tensor(LAMBDA p : Upper(h, b[p + 1]), Len(b)),
                 proj_dist |-> pd,
                 log_p |-> lp,
                 elementwise_loss |-> cross_entropy(h, B, pd, lp)]

----------------------------------------------------------------------------
(* RainbowDQN.get_action *)

\* The fill value of MaskedArray.argmax, below every number
MinusInf == <<-1, 0>>

\* action_mask=None
NoMask == <<>>

\* np.ma.array(action_values, mask=1 - action_mask) as argmax sees it: the
\* masked entries filled with the least value
filled(q, mask_row) ==
    [a \in Actions |-> IF mask_row[a] = 1 THEN q[a] ELSE MinusInf]

get_action_unmasked(net, h, states, action_mask) ==
    [i \in 1..Len(states) |-> argmax(forward_q(net, h, states[i]))]

\* get_action(state, action_mask): per observation the first action of
\* greatest value, among all actions without a mask and among the
\* unmasked ones with one
get_action(net, h, states, action_mask) ==
    [i \in 1..Len(states) |->
        IF action_mask = NoMask
        THEN argmax(forward_q(net, h, states[i]))
        ELSE argmax(filled(forward_q(net, h, states[i]), action_mask[i]))]

----------------------------------------------------------------------------
(* RainbowDQN.learn and soft_update *)

\* elementwise vector operations on tensors of shape (B,)
VAdd(x, y) == Tensor(LAMBDA i : RAdd(x[i + 1], y[i + 1]), Len(x))
VMul(x, y) == Tensor(LAMBDA i : RMul(x[i + 1], y[i + 1]), Len(x))

\* torch.mean
mean(x) == RDiv(RSum(x, Len(x)), RInt(Len(x)))

LossRaised(err) == [status |-> err, elementwise_loss |-> <<>>]

\* What a call of _dqn_loss that learn does not make leaves behind
NotCalled == LossRaised("not called")

elementwise_blend_replacing(h, n_step, one, nst) ==
    IF ~n_step /\ one.status # "ok"
    THEN LossRaised(one.status)
    ELSE IF n_step /\ nst.status # "ok"
    THEN LossRaised(nst.status)
    ELSE [status |-> "ok",
          elementwise_loss |->
              IF n_step THEN nst.elementwise_loss ELSE one.elementwise_loss]

\* The blending of the one-step loss and the n-step loss, the same
\* statements in the prioritized and in the other branch of learn
elementwise_blend(h, n_step, one, nst) ==
    IF (h.combined_reward \/ ~n_step) /\ one.status # "ok"
    THEN LossRaised(one.status)
    ELSE IF n_step /\ nst.status # "ok"
    THEN LossRaised(nst.status)
    ELSE [status |-> "ok",
          elementwise_loss |->
              IF n_step
              THEN (IF h.combined_reward
                    THEN VAdd(one.elementwise_loss, nst.elementwise_loss)
                    ELSE nst.elementwise_loss)
              ELSE one.elementwise_loss]

\* The per-transition loss of learn: _dqn_loss on the batch with gamma when
\* combined_reward or no n-step batch, _dqn_loss on the n-step batch with
\* gamma ** n_step when there is one, then the blending
learn_loss(online, target, h, batch, n_batch, n_step) ==
    CHOOSE el \in
        { elementwise_blend(h, n_step, one, nst) :
            one \in { IF h.combined_reward \/ ~n_step
                      THEN _dqn_loss(online, target, h, batch, h.gamma)
                      ELSE NotCalled },
            nst \in { IF n_step
                      THEN _dqn_loss(online, target, h, n_batch,
                                     RPow(h.gamma, h.n_step))
                      ELSE NotCalled } } : TRUE

scalar_loss_weighting_twice(elementwise_loss, weights, per) ==
    IF per THEN mean(VMul(VMul(elementwise_loss, weights), weights))
    ELSE mean(elementwise_loss)

\* loss = torch.mean(elementwise_loss * weights) with prioritized replay,
\* torch.mean(elementwise_loss) without
scalar_loss(elementwise_loss, weights, per) ==
    IF per THEN mean(VMul(elementwise_loss, weights)) ELSE mean(elementwise_loss)

\* optimizer.zero_grad(); loss.backward(); clip_grad_norm_(actor.parameters(),
\* 10.0); optimizer.step(). The gradient of the loss is taken to lie along the
\* first parameter with the size of the loss; the step is one of plain
\* gradient descent.
GradClip == 10

clip_grad_norm_(g) ==
    IF RLt(RInt(GradClip), g) THEN RInt(GradClip)
    ELSE IF RLt(g, RInt(-GradClip)) THEN RInt(-GradClip)
    ELSE g

optimizer_step(net, h, loss) ==
    [net EXCEPT !.params =
        <<RSub(net.params[1], RMul(h.lr, clip_grad_norm_(loss))), net.params[2]>>]

soft_update_swapped(online, target, h) ==
    [target EXCEPT !.params =
        [p \in 1..Len(target.params) |->
            RAdd(RMul(h.tau, target.params[p]),
                 RMul(RSub(One, h.tau), online.params[p]))]]

\* soft_update: target_param <- tau * eval_param + (1 - tau) * target_param
soft_update(online, target, h) ==
    [target EXCEPT !.params =
        [p \in 1..Len(target.params) |->
            RAdd(RMul(h.tau, online.params[p]),
                 RMul(RSub(One, h.tau), target.params[p]))]]

\* module.reset_noise(): the noise is drawn afresh
NoiseValues == 2

reset_noise(net) == [net EXCEPT !.noise = (@ + 1) % NoiseValues]

\* None, as learn returns it for idxs and new_priorities
None == <<>>

\* One statement of learn and the two networks as it leaves them
Step(name, online, target) ==
    [step |-> name, actor |-> online, actor_target |-> target]

learn_update_sync_first(online, target, h, loss) ==
    LET synced == soft_update(online, target, h)
        stepped == optimizer_step(online, h, loss)
    IN  << Step("optimizer.zero_grad", online, target),
           Step("loss.backward", online, target),
           Step("soft_update", online, synced),
           Step("clip_grad_norm_", online, synced),
           Step("optimizer.step", stepped, synced),
           Step("actor.reset_noise", reset_noise(stepped), synced),
           Step("actor_target.reset_noise", reset_noise(stepped), reset_noise(synced)) >>

\* The statements of learn after the loss, lines 534-545, in their order
learn_update(online, target, h, loss) ==
    LET stepped == optimizer_step(online, h, loss)
        synced == soft_update(stepped, target, h)
    IN  << Step("optimizer.zero_grad", online, target),
           Step("loss.backward", online, target),
           Step("clip_grad_norm_", online, target),
           Step("optimizer.step", stepped, target),
           Step("soft_update", stepped, synced),
           Step("actor.reset_noise", reset_noise(stepped), synced),
           Step("actor_target.reset_noise", reset_noise(stepped), reset_noise(synced)) >>

new_priorities_weighted(elementwise_loss, weights, h, per) ==
    IF per
    THEN [i \in 1..Len(elementwise_loss) |->
             RAdd(RMul(elementwise_loss[i], weights[i]), h.prior_eps)]
    ELSE None

\* new_priorities = elementwise_loss + self.prior_eps if per, else None
new_priorities(elementwise_loss, weights, h, per) ==
    IF per
    THEN [i \in 1..Len(elementwise_loss) |->
             RAdd(elementwise_loss[i], h.prior_eps)]
    ELSE None

\* learn(experiences, n_step, per): the state it leaves and the value it
\* returns, (loss, idxs, new_priorities), or the error it raises
learn_step_copying(online, target, h, el, weights, idxs, n_step, per, loss) ==
    LET steps == learn_update(online, target, h, loss)
    IN  [status |-> "ok",
         actor |-> steps[Len(steps)].actor,
         actor_target |-> steps[Len(steps)].actor,
         elementwise_loss |-> el.elementwise_loss,
         steps |-> <<Step("elementwise_loss", online, target)>> \o steps,
         ret |-> << loss,
                    IF per \/ n_step THEN idxs ELSE None,
                    new_priorities(el.elementwise_loss, weights, h, per) >>]

learn_step(online, target, h, el, weights, idxs, n_step, per, loss) ==
    LET steps == learn_update(online, target, h, loss)
    IN  [status |-> "ok",
         actor |-> steps[Len(steps)].actor,
         actor_target |-> steps[Len(steps)].actor_target,
         elementwise_loss |-> el.elementwise_loss,
         steps |-> <<Step("elementwise_loss", online, target)>> \o steps,
         ret |-> << loss,
                    IF per \/ n_step THEN idxs ELSE None,
                    new_priorities(el.elementwise_loss, weights, h, per) >>]

learn_syncing_on_error(online, target, h, batch, n_batch, weights, idxs, n_step, per) ==
    CHOOSE r \in
        { IF el.status # "ok"
          THEN [status |-> el.status,
                actor |-> reset_noise(online),
                actor_target |-> reset_noise(soft_update(online, target, h)),
                elementwise_loss |-> <<>>,
                steps |-> <<Step("elementwise_loss", online, target)>>,
                ret |-> <<>>]
          ELSE CHOOSE s \in
                  { learn_step(online, target, h, el, weights, idxs, n_step, per, loss) :
                      loss \in {scalar_loss(el.elementwise_loss, weights, per)} } : TRUE
          : el \in {learn_loss(online, target, h, batch, n_batch, n_step)} } : TRUE

learn(online, target, h, batch, n_batch, weights, idxs, n_step, per) ==
    CHOOSE r \in
        { IF el.status # "ok"
          THEN [status |-> el.status, actor |-> online, actor_target |-> target,
                elementwise_loss |-> <<>>,
                steps |-> <<Step("elementwise_loss", online, target)>>,
                ret |-> <<>>]
          ELSE CHOOSE s \in
                  { learn_step(online, target, h, el, weights, idxs, n_step, per, loss) :
                      loss \in {scalar_loss(el.elementwise_loss, weights, per)} } : TRUE
          : el \in {learn_loss(online, target, h, batch, n_batch, n_step)} } : TRUE

----------------------------------------------------------------------------
(* Inputs of the learning step *)

MaxBatch == 2          \* largest number of transitions in one batch

\* (v_min, v_max, num_atoms): the default support of 51 atoms and two small ones
Supports ==
    { <<RInt(-10), RInt(10), 51>>, <<RInt(0), RInt(2), 3>>, <<RInt(-1), RInt(1), 5>> }

\* The hyperparameters __init__ stores
Hyper(s, batch_size, gamma, tau, combined_reward) ==
    [batch_size |-> batch_size, lr |-> One, gamma |-> gamma, tau |-> tau,
     prior_eps |-> <<1, 1000000>>, num_atoms |-> s[3], v_min |-> s[1],
     v_max |-> s[2], n_step |-> 3, combined_reward |-> combined_reward]

Net(p1, p2, z) == [params |-> <<RInt(p1), RInt(p2)>>, noise |-> z]

\* Transitions (state, action, reward, next_state, done) a batch is made of
Rows ==
    { <<0, 0, One, 0, 0>>,
      <<1, 1, Zero, 0, 1>>,
      <<0, 1, Half, 1, 0>>,
      <<1, 0, RInt(20), 1, 0>>,
      <<1, 1, RInt(-20), 1, 1>> }

\* The aligned tensors (states, actions, rewards, next_states, dones) of a
\* sequence of transitions
AsBatch(rows) ==
    [states |-> [i \in 1..Len(rows) |-> rows[i][1]],
     actions |-> [i \in 1..Len(rows) |-> rows[i][2]],
     rewards |-> [i \in 1..Len(rows) |-> rows[i][3]],
     next_states |-> [i \in 1..Len(rows) |-> rows[i][4]],
     dones |-> [i \in 1..Len(rows) |-> rows[i][5]]]

\* The batches of B transitions handed to an agent with hyperparameters h;
\* over the 51-atom support only batches of one transition, the first or the
\* second, are used
Batches(h, B) ==
    IF h.num_atoms > 5
    THEN (IF B = 1
          THEN {AsBatch(<<r>>) : r \in {<<0, 0, One, 0, 0>>, <<1, 1, Zero, 0, 1>>}}
          ELSE {})
    ELSE {AsBatch(rows) : rows \in [1..B -> Rows]}

NoBatch == AsBatch(<<>>)

Gammas == {One, Half}

----------------------------------------------------------------------------
(* The agent: state shared by the specifications below *)

NoAgent ==
    [batch_size |-> 0, lr |-> Zero, gamma |-> Zero, tau |-> Zero,
     prior_eps |-> Zero, num_atoms |-> 0, v_min |-> Zero, v_max |-> Zero,
     n_step |-> 0, combined_reward |-> FALSE]

NoOut ==
    [op |-> "init", batch |-> NoBatch, n_batch |-> NoBatch, gamma |-> Zero,
     n_step |-> FALSE, per |-> FALSE, weights |-> <<>>, idxs |-> <<>>,
     res |-> DqnRaised("none"), ret |-> <<>>, steps |-> <<>>,
     pre_actor |-> Net(0, 0, 0), pre_target |-> Net(0, 0, 0)]

AgentIdle ==
    /\ hp = NoAgent
    /\ actor = Net(0, 0, 0)
    /\ actor_target = Net(0, 0, 0)
    /\ learn_steps = 0
    /\ calls = 0
    /\ out = NoOut

----------------------------------------------------------------------------
(* RainbowDQN.__init__: the checks of the hyperparameters, the support, the *)
(* two networks and the optimizer, in the order of the source              *)

\* What __init__ has created so far, by attribute name
AllCreated == {"support", "actor", "actor_target", "optimizer"}

InitRaised(err, created) ==
    [status |-> err, hp |-> NoAgent, support |-> <<>>, delta_z |-> Zero,
     created |-> created]

\* The asserts of lines 114-137 on the values of the arguments
ArgsAccepted(args) ==
    /\ args.batch_size >= 1
    /\ RLt(Zero, args.lr)
    /\ RLt(Zero, args.tau)
    /\ RLt(Zero, args.prior_eps)
    /\ args.num_atoms >= 1
    /\ RLe(args.v_min, args.v_max)
    /\ args.n_step >= 1

init_checking_late(args) ==
    IF args.num_atoms = 1
    THEN InitRaised("ZeroDivisionError", {"support"})
    ELSE IF ~ArgsAccepted(args)
    THEN InitRaised("AssertionError", AllCreated)
    ELSE [status |-> "ok", hp |-> args,
          support |-> linspace(args.v_min, args.v_max, args.num_atoms),
          delta_z |-> delta_z(args),
          created |-> AllCreated]

\* __init__(..., batch_size, lr, gamma, tau, prior_eps, num_atoms, v_min,
\* v_max, n_step, combined_reward, ...): the asserts, then the attributes,
\* self.support, self.delta_z (a division by num_atoms - 1), then the
\* networks and the optimizer
__init__(args) ==
    IF ~ArgsAccepted(args)
    THEN InitRaised("AssertionError", {})
    ELSE IF args.num_atoms = 1
    THEN InitRaised("ZeroDivisionError", {"support"})
    ELSE [status |-> "ok", hp |-> args,
          support |-> linspace(args.v_min, args.v_max, args.num_atoms),
          delta_z |-> delta_z(args),
          created |-> AllCreated]

----------------------------------------------------------------------------
(* The ReplayBuffer state machine *)

Buf == [memory |-> memory, counter |-> counter, maxlen |-> memory_size]

NoCall == [op |-> "init", vect |-> FALSE, k |-> 0, args |-> <<>>, idx |-> <<>>,
           ret |-> [status |-> "ok", batch |-> <<>>],
           pre_memory |-> <<>>, pre_counter |-> 0]

Call(op, vect, k, args, idx, ret) ==
    [op |-> op, vect |-> vect, k |-> k, args |-> args, idx |-> idx, ret |-> ret,
     pre_memory |-> memory, pre_counter |-> counter]

\* ReplayBuffer.__init__
BufferInit ==
    /\ memory_size \in 0..MaxMemorySize
    /\ memory = <<>>
    /\ counter = 0
    /\ inserted = <<>>
    /\ last = NoCall

Commit(b) ==
    /\ memory' = b.memory
    /\ counter' = b.counter
    /\ UNCHANGED memory_size
    /\ UNCHANGED agentVars

SingleEnv ==
    \E t \in TagChoices(Len(inserted) + 1) :
        /\ Len(inserted) < MaxInserts
        /\ LET a == TaggedArgs(t)
           IN  /\ Commit(save2memorySingleEnv(Buf, a[1], a[2], a[3], a[4], a[5]))
               /\ inserted' = Append(inserted,
                                     experience(a[1], a[2], a[3], a[4], a[5]))
        /\ last' = Call("save2memorySingleEnv", FALSE, 1, <<t>>, <<>>, NoCall.ret)

\* the tagged transitions of a vectorised insert of m environments
TagSeqs(m) ==
    {ts \in [1..m -> Tags] :
        \A i \in 1..m : ts[i] \in TagChoices(Len(inserted) + i)}

AsExperiences(ts) ==
    [i \in 1..Len(ts) |->
        experience(TaggedArgs(ts[i])[1], TaggedArgs(ts[i])[2], TaggedArgs(ts[i])[3],
                   TaggedArgs(ts[i])[4], TaggedArgs(ts[i])[5])]

VectEnvs ==
    \E m \in 0..Min(MaxVect, MaxInserts - Len(inserted)) : \E ts \in TagSeqs(m) :
        /\ Len(inserted) + m <= MaxInserts
        /\ Commit(save2memoryVectEnvs(Buf, Column(ts, 1), Column(ts, 2),
                                      Column(ts, 3), Column(ts, 4), Column(ts, 5)))
        /\ inserted' = inserted \o AsExperiences(ts)
        /\ last' = Call("save2memoryVectEnvs", TRUE, m, ts, <<>>, NoCall.ret)

Save2MemoryVectorised ==
    \E m \in 0..Min(MaxVect, MaxInserts - Len(inserted)) : \E ts \in TagSeqs(m) :
        /\ Len(inserted) + m <= MaxInserts
        /\ Commit(save2memory(Buf, Column(ts, 1), Column(ts, 2), Column(ts, 3),
                              Column(ts, 4), Column(ts, 5), TRUE))
        /\ inserted' = inserted \o AsExperiences(ts)
        /\ last' = Call("save2memory", TRUE, m, ts, <<>>, NoCall.ret)

Save2MemorySingle ==
    \E t \in TagChoices(Len(inserted) + 1) :
        /\ Len(inserted) < MaxInserts
        /\ LET a == TaggedArgs(t)
           IN  /\ Commit(save2memory(Buf, a[1], a[2], a[3], a[4], a[5], FALSE))
               /\ inserted' = Append(inserted,
                                     experience(a[1], a[2], a[3], a[4], a[5]))
        /\ last' = Call("save2memory", FALSE, 1, <<t>>, <<>>, NoCall.ret)

\* sample(batch_size) that raises
SampleRaises ==
    \E k \in 0..MaxSampleK : \E r \in sample(memory, k) :
        /\ r.status # "ok"
        /\ last' = Call("sample", FALSE, k, <<>>, r.idx, [status |-> r.status, batch |-> r.batch])
        /\ memory' = r.memory
        /\ UNCHANGED <<memory_size, counter, inserted>>
        /\ UNCHANGED agentVars

\* sample(batch_size) that returns
SampleReturns ==
    \E k \in 0..MaxSampleK : \E r \in sample(memory, k) :
        /\ r.status = "ok"
        /\ last' = Call("sample", FALSE, k, <<>>, r.idx, [status |-> r.status, batch |-> r.batch])
        /\ memory' = r.memory
        /\ UNCHANGED <<memory_size, counter, inserted>>
        /\ UNCHANGED agentVars

BufferNext ==
    \/ SingleEnv
    \/ VectEnvs
    \/ Save2MemoryVectorised
    \/ Save2MemorySingle
    \/ SampleRaises
    \/ SampleReturns

Init == BufferInit /\ AgentIdle

Next == BufferNext

Spec == Init /\ [][Next]_vars

----------------------------------------------------------------------------
(* SpecLoss: _dqn_loss as a function of the agent, the two networks, the   *)
(* batch and gamma                                                         *)

BufferIdle ==
    /\ memory_size = 0
    /\ memory = <<>>
    /\ counter = 0
    /\ inserted = <<>>
    /\ last = NoCall

LossInit ==
    /\ BufferIdle
    /\ \E s \in Supports : \E bs \in 1..MaxBatch :
          /\ (s[3] > 5) => (bs = 1)
          /\ hp = Hyper(s, bs, One, Half, FALSE)
    /\ actor \in {Net(0, 0, 0), Net(1, 0, 0)}
    /\ actor_target \in {Net(0, 0, 0), Net(1, 0, 0)}
    /\ learn_steps = 0
    /\ calls = 0
    /\ out = NoOut

DqnLossCall(batch, gamma, res) ==
    [NoOut EXCEPT !.op = "_dqn_loss", !.batch = batch, !.gamma = gamma,
                  !.res = res, !.pre_actor = actor, !.pre_target = actor_target]

\* a call whose batch passes the indexing by range(self.batch_size)
DqnLossReturns ==
    \E B \in 1..MaxBatch : \E batch \in Batches(hp, B) : \E gamma \in Gammas :
        /\ out.op = "init"
        /\ IndexingOk(hp.batch_size, B)
        /\ out' = DqnLossCall(batch, gamma,
                              _dqn_loss(actor, actor_target, hp, batch, gamma))
        /\ UNCHANGED <<hp, actor, actor_target, learn_steps, calls>>
        /\ UNCHANGED bufferVars

\* a call whose batch does not
DqnLossRaises ==
    \E B \in 1..MaxBatch : \E batch \in Batches(hp, B) : \E gamma \in Gammas :
        /\ out.op = "init"
        /\ ~IndexingOk(hp.batch_size, B)
        /\ out' = DqnLossCall(batch, gamma,
                              _dqn_loss(actor, actor_target, hp, batch, gamma))
        /\ UNCHANGED <<hp, actor, actor_target, learn_steps, calls>>
        /\ UNCHANGED bufferVars

\* Rewards of terminal transitions: between two atoms of the supports of
\* Supports, and above v_max of the two small ones
TerminalRewards == {<<1, 4>>, RInt(3)}

\* a call on batch_size terminal transitions
DqnLossTerminal ==
    \E r \in TerminalRewards : \E gamma \in Gammas :
        /\ out.op = "init"
        /\ \E batch \in {AsBatch([i \in 1..hp.batch_size |-> <<1, 1, r, i % 2, 1>>])} :
              out' = DqnLossCall(batch, gamma,
                                 _dqn_loss(actor, actor_target, hp, batch, gamma))
        /\ UNCHANGED <<hp, actor, actor_target, learn_steps, calls>>
        /\ UNCHANGED bufferVars

LossNext == DqnLossReturns \/ DqnLossRaises \/ DqnLossTerminal

SpecLoss == LossInit /\ [][LossNext]_vars

----------------------------------------------------------------------------
(* SpecLearn: one learn call on an agent at any point of its training      *)

\* The transitions of the batches handed to learn
LearnRows ==
    { <<0, 0, One, 0, 0>>, <<1, 1, Zero, 1, 1>> }

LearnBatches(B) == {AsBatch(rows) : rows \in [1..B -> LearnRows]}

\* The aligned n-step transitions of a batch: same state and action, the
\* reward summed over the horizon, the state and done flag at its end
NStepBatch(batch) ==
    [batch EXCEPT
        !.rewards = [i \in 1..Len(batch.rewards) |-> RAdd(batch.rewards[i], Half)],
        !.next_states = [i \in 1..Len(batch.rewards) |-> 1 - batch.next_states[i]],
        !.dones = [i \in 1..Len(batch.rewards) |->
                      IF batch.next_states[i] = 1 THEN 1 ELSE batch.dones[i]]]

\* Importance-sampling weights and indices a prioritized buffer hands over
WeightChoices(B) ==
    { [i \in 1..B |-> One], [i \in 1..B |-> <<1, i>>] }

Indices(B) == [i \in 1..B |-> 2 * i + 1]

\* The agent when learn is called: hyperparameters accepted by __init__, and
\* the two networks as training has left them. With tau = 1 every soft_update
\* leaves the target parameters equal to the online ones.
LearnInit ==
    /\ BufferIdle
    /\ \E bs \in 1..MaxBatch : \E gamma \in Gammas : \E tau \in {Half, One} :
       \E cr \in BOOLEAN :
          hp = Hyper(<<RInt(-1), RInt(1), 5>>, bs, gamma, tau, cr)
    /\ actor \in {Net(0, 0, 0), Net(1, 0, 0)}
    /\ actor_target \in {Net(0, 0, 0), Net(1, 0, 0)}
    /\ (hp.tau = One) => (actor_target = actor)
    /\ learn_steps = 0
    /\ calls = 0
    /\ out = NoOut

LearnCall(batch, n_batch, weights, idxs, n_step, per, r) ==
    [NoOut EXCEPT !.op = "learn", !.batch = batch, !.n_batch = n_batch,
                  !.n_step = n_step, !.per = per, !.weights = weights,
                  !.idxs = idxs,
                  !.res = [DqnRaised(r.status) EXCEPT
                              !.elementwise_loss = r.elementwise_loss],
                  !.ret = r.ret, !.steps = r.steps,
                  !.pre_actor = actor, !.pre_target = actor_target]

Learn(batch, n_batch, weights, idxs, n_step, per) ==
    /\ learn_steps = 0
    /\ out.op = "init"
    /\ \E r \in {learn(actor, actor_target, hp, batch, n_batch, weights, idxs,
                       n_step, per)} :
          /\ actor' = r.actor
          /\ actor_target' = r.actor_target
          /\ out' = LearnCall(batch, n_batch, weights, idxs, n_step, per, r)
    /\ learn_steps' = learn_steps + 1
    /\ UNCHANGED <<hp, calls>>
    /\ UNCHANGED bufferVars

\* learn(experiences, n_step=False, per=False)
LearnOneStep ==
    \E batch \in LearnBatches(hp.batch_size) :
        Learn(batch, NoBatch, <<>>, <<>>, FALSE, FALSE)

\* learn(experiences, n_step=True, per=False)
LearnNStep ==
    \E batch \in LearnBatches(hp.batch_size) :
        Learn(batch, NStepBatch(batch), <<>>, Indices(hp.batch_size), TRUE, FALSE)

\* learn(experiences, n_step=False, per=True)
LearnPer ==
    \E batch \in LearnBatches(hp.batch_size) :
    \E weights \in WeightChoices(hp.batch_size) :
        Learn(batch, NoBatch, weights, Indices(hp.batch_size), FALSE, TRUE)

\* learn(experiences, n_step=True, per=True)
LearnPerNStep ==
    \E batch \in LearnBatches(hp.batch_size) :
    \E weights \in WeightChoices(hp.batch_size) :
        Learn(batch, NStepBatch(batch), weights, Indices(hp.batch_size), TRUE, TRUE)

LearnNext == LearnOneStep \/ LearnNStep \/ LearnPer \/ LearnPerNStep

SpecLearn == LearnInit /\ [][LearnNext]_vars

----------------------------------------------------------------------------
(* SpecInit: the construction of an agent *)

\* Arguments given to __init__, valid and not
InitSupports ==
    { <<RInt(0), RInt(2), 3>>, <<RInt(-1), RInt(1), 5>>, <<RInt(1), RInt(-1), 3>>,
      <<RInt(0), RInt(0), 3>>, <<RInt(0), RInt(2), 1>>, <<RInt(0), RInt(2), 0>> }

InitArgs ==
    { [Hyper(s, bs, Half, tau, FALSE) EXCEPT
          !.lr = lr, !.prior_eps = eps, !.n_step = n] :
        s \in InitSupports, bs \in {0, 1, MaxBatch},
        tau \in {RInt(-1), Zero, Half, One, RInt(2)},
        lr \in {Zero, One}, eps \in {Zero, <<1, 1000000>>}, n \in {0, 3} }

NotConstructed == BufferIdle /\ AgentIdle

InitCall(args, r) ==
    [NoOut EXCEPT !.op = "__init__", !.res = DqnRaised(r.status),
                  !.ret = [args |-> args, support |-> r.support,
                           delta_z |-> r.delta_z, created |-> r.created]]

\* RainbowDQN(...) returns an agent: the target network is a copy of the
\* online one
ConstructReturns ==
    \E args \in InitArgs : \E net \in {Net(0, 0, 0), Net(1, 0, 0)} :
    \E r \in {__init__(args)} :
        /\ out.op = "init"
        /\ r.status = "ok"
        /\ hp' = r.hp
        /\ actor' = net
        /\ actor_target' = net
        /\ out' = InitCall(args, r)
        /\ UNCHANGED <<learn_steps, calls>>
        /\ UNCHANGED bufferVars

\* RainbowDQN(...) raises: there is no agent
ConstructRaises ==
    \E args \in InitArgs : \E r \in {__init__(args)} :
        /\ out.op = "init"
        /\ r.status # "ok"
        /\ out' = InitCall(args, r)
        /\ UNCHANGED <<hp, actor, actor_target, learn_steps, calls>>
        /\ UNCHANGED bufferVars

InitNext == ConstructReturns \/ ConstructRaises

SpecInit == NotConstructed /\ [][InitNext]_vars

----------------------------------------------------------------------------
(* SpecAgent: one operation (get_action, _dqn_loss, learn) on an agent at   *)
(* any point of its training, or soft_update called up to MaxCalls times   *)

MaxCalls == 2          \* most soft_update calls made in a row

\* The agent when the operation is called. tau is a plain attribute:
\* __init__ admits every tau > 0 and the caller may assign it afterwards, so
\* a target network that is held still (tau = 0) is among the agents. With
\* tau = 1 every soft_update leaves the target parameters equal to the
\* online ones.
AgentInit ==
    /\ BufferIdle
    /\ \E bs \in 1..MaxBatch : \E tau \in {Zero, Half, One} :
          hp = Hyper(<<RInt(0), RInt(2), 3>>, bs, Half, tau, TRUE)
    /\ actor \in {Net(0, 0, 0), Net(1, 0, 0)}
    /\ actor_target \in {Net(0, 0, 0), Net(1, 0, 0)}
    /\ (hp.tau = One) => (actor_target = actor)
    /\ learn_steps = 0
    /\ calls = 0
    /\ out = NoOut

\* agent.soft_update()
SoftUpdate ==
    /\ out.op \in {"init", "soft_update"}
    /\ calls < MaxCalls
    /\ actor_target' = soft_update(actor, actor_target, hp)
    /\ calls' = calls + 1
    /\ out' = [NoOut EXCEPT !.op = "soft_update",
                            !.pre_actor = actor, !.pre_target = actor_target]
    /\ UNCHANGED <<hp, actor, learn_steps>>
    /\ UNCHANGED bufferVars

\* Batches of observations and the masks (1 = legal, 0 = illegal), one row
\* per observation
ObsBatches == {<<0>>, <<1>>, <<0, 1>>}

MaskRows == [Actions -> {0, 1}]

ActionMasks(n) == {NoMask} \cup [1..n -> MaskRows]

\* agent.get_action(state, action_mask)
GetAction ==
    \E states \in ObsBatches : \E action_mask \in ActionMasks(Len(states)) :
        /\ out.op = "init"
        /\ out' = [NoOut EXCEPT
                      !.op = "get_action",
                      !.ret = [states |-> states, action_mask |-> action_mask,
                               action |-> get_action(actor, hp, states, action_mask)],
                      !.pre_actor = actor, !.pre_target = actor_target]
        /\ UNCHANGED <<hp, actor, actor_target, learn_steps, calls>>
        /\ UNCHANGED bufferVars

\* The batch of B copies of one transition
PlainBatch(B) == AsBatch([i \in 1..B |-> <<0, 0, One, 0, 0>>])

\* learn on experiences whose batch, or whose n-step batch, fails the
\* indexing by range(self.batch_size) in _dqn_loss
LearnRaises ==
    \E B \in 1..MaxBatch : \E Bn \in 1..MaxBatch :
    \E n_step \in BOOLEAN : \E per \in BOOLEAN :
        /\ \/ ~IndexingOk(hp.batch_size, B)
           \/ n_step /\ ~IndexingOk(hp.batch_size, Bn)
        /\ Learn(PlainBatch(B),
                 IF n_step THEN NStepBatch(PlainBatch(Bn)) ELSE NoBatch,
                 IF per THEN [i \in 1..B |-> One] ELSE <<>>,
                 IF per \/ n_step THEN Indices(B) ELSE <<>>,
                 n_step, per)

\* agent._dqn_loss(states, actions, rewards, next_states, dones, gamma)
LossCall ==
    \E B \in 1..MaxBatch : \E gamma \in Gammas :
        /\ out.op = "init"
        /\ out' = DqnLossCall(PlainBatch(B), gamma,
                              _dqn_loss(actor, actor_target, hp, PlainBatch(B), gamma))
        /\ UNCHANGED <<hp, actor, actor_target, learn_steps, calls>>
        /\ UNCHANGED bufferVars

AgentNext ==
    \/ GetAction
    \/ SoftUpdate
    \/ LossCall
    \/ LearnOneStep
    \/ LearnNStep
    \/ LearnPer
    \/ LearnPerNStep
    \/ LearnRaises

SpecAgent == AgentInit /\ [][AgentNext]_vars

----------------------------------------------------------------------------
(* Properties of the replay memory *)

States(mem) == [i \in 1..Len(mem) |-> mem[i].state]

LastN(seq, n) == SubSeq(seq, Len(seq) - n + 1, Len(seq))

IsInsert == last.op \in {"save2memorySingleEnv", "save2memoryVectEnvs", "save2memory"}

\* C1: in every reachable state of the buffer the number of stored
\* transitions, len(buffer), is at most memory_size.
C1_SizeAtMostMemorySize == Len(memory) <= memory_size

\* A full buffer that has already evicted something.
C1_Witness ==
    /\ memory_size > 0
    /\ Len(memory) = memory_size
    /\ Len(inserted) > memory_size

\* C2: FIFO law. The stored contents are exactly the last
\* min(n, memory_size) of the n transitions inserted so far, in insertion
\* order; a single insert into a full buffer drops exactly the oldest stored
\* transition and appends the new one; with memory_size = 3 the inserts
\* A, B, C, D leave B, C, D.
C2_FIFO ==
    /\ memory = LastN(inserted, Min(Len(inserted), memory_size))
    /\ (/\ IsInsert
        /\ ~last.vect
        /\ memory_size > 0
        /\ Len(last.pre_memory) = memory_size)
       => /\ Len(memory) = memory_size
          /\ SubSeq(memory, 1, memory_size - 1) = Tail(last.pre_memory)
          /\ memory[memory_size] = inserted[Len(inserted)]
    /\ (memory_size = 3 /\ States(inserted) = <<"A", "B", "C", "D">>)
       => States(memory) = <<"B", "C", "D">>

\* memory_size = 3 after the inserts A, B, C, D.
C2_Witness ==
    /\ memory_size = 3
    /\ States(inserted) = <<"A", "B", "C", "D">>
    /\ IsInsert
    /\ Len(last.pre_memory) = 3

\* What a successful sample(k) must return: k pairwise distinct positions of
\* the memory and, column by column, the transitions stored there.
GoodBatch ==
    /\ last.ret.status = "ok"
    /\ Len(last.idx) = last.k
    /\ \A i \in 1..last.k : last.idx[i] \in 1..Len(memory)
    /\ \A i, j \in 1..last.k : (i # j) => (last.idx[i] # last.idx[j])
    /\ Len(last.ret.batch) = 5
    /\ \A c \in 1..5 : Len(last.ret.batch[c]) = last.k
    /\ \A i \in 1..last.k :
          LET e == memory[last.idx[i]]
          IN  /\ last.ret.batch[1][i] = e.state
              /\ last.ret.batch[2][i] = e.action
              /\ last.ret.batch[3][i] = e.reward
              /\ last.ret.batch[4][i] = e.next_state
              /\ last.ret.batch[5][i] = (IF e.done THEN 1 ELSE 0)

\* C3 as stated: for every k with 0 <= k <= len(buffer), sample(k) succeeds
\* and returns k transitions from k pairwise distinct positions.
C3_AsStated ==
    (last.op = "sample" /\ 0 <= last.k /\ last.k <= Len(last.pre_memory))
    => GoodBatch

\* C3 (amended): for every k with 1 <= k <= len(buffer), sample(k) succeeds
\* and returns exactly k transitions, taken from k pairwise distinct positions
\* of the memory, each one a transition currently stored; sample(0) raises.
C3_SampleDistinct ==
    /\ (last.op = "sample" /\ 1 <= last.k /\ last.k <= Len(last.pre_memory))
       => GoodBatch
    /\ (last.op = "sample" /\ last.k = 0) => last.ret.status = "ValueError"

\* A batch of two or more drawn from a memory holding two equal transitions.
C3_Witness ==
    /\ last.op = "sample"
    /\ last.k >= 2
    /\ last.ret.status = "ok"
    /\ \E i, j \in 1..Len(memory) : i # j /\ memory[i] = memory[j]

\* C4: sample(batch_size) with batch_size greater than the number of stored
\* transitions raises an error and returns no batch (in particular no batch
\* shorter than batch_size), and leaves the stored transitions and the
\* insertion counter as they were.
C4_SampleTooManyRaises ==
    (last.op = "sample" /\ last.k > Len(last.pre_memory))
    => /\ last.ret.status = "ValueError"
       /\ last.ret.batch = <<>>
       /\ memory = last.pre_memory
       /\ counter = last.pre_counter

\* A sample call asking for more than a non-empty buffer holds.
C4_Witness ==
    /\ last.op = "sample"
    /\ Len(last.pre_memory) >= 1
    /\ last.k > Len(last.pre_memory)
    /\ last.ret.status # "ok"

\* C5: sample leaves the replay memory unchanged: stored transitions, their
\* order, the length and the counter are what they were before the call,
\* whether the call returns or raises.
C5_SampleFrame ==
    (last.op = "sample")
    => /\ memory = last.pre_memory
       /\ Len(memory) = Len(last.pre_memory)
       /\ counter = last.pre_counter
       /\ memory = LastN(inserted, Min(Len(inserted), memory_size))

\* A successful sample of two transitions from a buffer that has evicted.
C5_Witness ==
    /\ last.op = "sample"
    /\ last.ret.status = "ok"
    /\ last.k >= 2
    /\ Len(inserted) > memory_size

\* m calls of save2memorySingleEnv on elements 1..m of the aligned columns
RECURSIVE SequentialInserts(_, _, _)
SequentialInserts(buf, ts, i) ==
    IF i > Len(ts) THEN buf
    ELSE SequentialInserts(
             save2memorySingleEnv(buf, Column(ts, 1)[i], Column(ts, 2)[i],
                                  Column(ts, 3)[i], Column(ts, 4)[i],
                                  Column(ts, 5)[i]),
             ts, i + 1)

\* C6: a vectorised insert (save2memoryVectEnvs, or save2memory with
\* is_vectorised = True) of m aligned transitions leaves contents and counter
\* exactly as m calls of save2memorySingleEnv on elements 0..m-1 in that
\* order would, evictions included.
C6_BatchEqualsSequential ==
    (IsInsert /\ last.vect)
    => LET b == SequentialInserts([memory |-> last.pre_memory,
                                   counter |-> last.pre_counter,
                                   maxlen |-> memory_size], last.args, 1)
       IN  /\ memory = b.memory
           /\ counter = b.counter

\* A vectorised insert of two transitions that crosses the capacity inside
\* the batch: the first fits, the second evicts.
C6_Witness ==
    /\ IsInsert
    /\ last.vect
    /\ last.k = 2
    /\ memory_size >= 2
    /\ Len(last.pre_memory) = memory_size - 1

\* C22: the insertion counter. It starts at 0, grows by exactly 1 for every
\* transition inserted (by m for a vectorised insert of m transitions, and
\* also when the insert evicts), never decreases and is left alone by sample;
\* hence len(buffer) = min(counter, memory_size) in every reachable state.
C22_InsertionCounter ==
    /\ counter = Len(inserted)
    /\ counter >= last.pre_counter
    /\ IsInsert => counter = last.pre_counter + last.k
    /\ last.op = "sample" => counter = last.pre_counter
    /\ last.op = "init" => counter = 0
    /\ Len(memory) = Min(counter, memory_size)

\* a vectorised insert of two or more transitions into a buffer it overfills
C22_Witness ==
    /\ last.op = "save2memoryVectEnvs"
    /\ last.k >= 2
    /\ memory_size > 0
    /\ Len(last.pre_memory) + last.k > memory_size
    /\ counter > memory_size

----------------------------------------------------------------------------
(* Properties of _dqn_loss (SpecLoss) *)

\* A call of _dqn_loss that returned, on a batch of batch_size transitions
LossReturned ==
    /\ out.op = "_dqn_loss"
    /\ out.res.status = "ok"
    /\ BatchLen(out.batch) = hp.batch_size

RowIndices == 0..(BatchLen(out.batch) - 1)
AtomIndices == 0..(hp.num_atoms - 1)

RowSum(t, i) ==
    RSum(Tensor(LAMBDA k : At(t, hp.num_atoms, i, k), hp.num_atoms), hp.num_atoms)

\* C7: mass conservation of the projection. For every row i of a batch of
\* batch_size transitions, whatever the reward, the done flag and gamma, the
\* target distribution of the row sums to 1 and so does the projected
\* distribution, also when a target atom lands exactly on an atom, on v_min
\* or on v_max.
C7_MassConservation ==
    LossReturned =>
        \A i \in RowIndices :
            /\ RowSum(out.res.target_q_dist, i) = One
            /\ RowSum(out.res.proj_dist, i) = RowSum(out.res.target_q_dist, i)

\* a returned call in which mass sits on a target atom clamped to v_max, on
\* one clamped to v_min, and on one that lands exactly on an inner atom
C7_Witness ==
    /\ LossReturned
    /\ \E i \in RowIndices : \E k \in AtomIndices :
          /\ RLt(Zero, At(out.res.target_q_dist, hp.num_atoms, i, k))
          /\ At(out.res.t_z, hp.num_atoms, i, k) = hp.v_max
          /\ At(out.res.b, hp.num_atoms, i, k) = RInt(hp.num_atoms - 1)
    /\ \E i \in RowIndices : \E k \in AtomIndices :
          /\ RLt(Zero, At(out.res.target_q_dist, hp.num_atoms, i, k))
          /\ At(out.res.t_z, hp.num_atoms, i, k) = hp.v_min
          /\ At(out.res.b, hp.num_atoms, i, k) = Zero

\* The mass that source atom k of row i gives to destination atom j
SplitMass(i, k, j) ==
    LET m == At(out.res.target_q_dist, hp.num_atoms, i, k)
        b == At(out.res.b, hp.num_atoms, i, k)
        L == At(out.res.L, hp.num_atoms, i, k)
        U == At(out.res.u, hp.num_atoms, i, k)
    IN  RAdd(IF L = j THEN RMul(m, RSub(RInt(U), b)) ELSE Zero,
             IF U = j THEN RMul(m, RSub(b, RInt(L))) ELSE Zero)

\* The call of the example: support (-10, 10, 51), one transition with
\* reward 1 and done 0, gamma 1, target distribution one-hot at atom 25
SplitExample ==
    /\ LossReturned
    /\ hp.v_min = RInt(-10) /\ hp.v_max = RInt(10) /\ hp.num_atoms = 51
    /\ BatchLen(out.batch) = 1
    /\ out.batch.rewards[1] = One
    /\ out.batch.dones[1] = 0
    /\ out.gamma = One
    /\ \A k \in AtomIndices :
          At(out.res.target_q_dist, 51, 0, k) = (IF k = 25 THEN One ELSE Zero)

\* C8: linear-interpolation split of the projection. Every entry
\* proj_dist[i, j] is the sum over the source atoms k of row i of the mass
\* target_dist[i, k] weighted (U - b) where L = j and (b - L) where U = j,
\* with L and U atom indices at most one apart around b; and in the example
\* (v_min = -10, v_max = 10, 51 atoms, reward 1, gamma 1, done 0, target
\* one-hot at 25) proj_dist is 1/2 at 27, 1/2 at 28 and 0 elsewhere.
C8_InterpolationSplit ==
    /\ LossReturned =>
          \A i \in RowIndices : \A j \in AtomIndices :
              /\ At(out.res.proj_dist, hp.num_atoms, i, j)
                   = RSum(Tensor(LAMBDA k : SplitMass(i, k, j), hp.num_atoms),
                          hp.num_atoms)
              /\ At(out.res.L, hp.num_atoms, i, j) \in AtomIndices
              /\ At(out.res.u, hp.num_atoms, i, j) \in AtomIndices
              /\ At(out.res.u, hp.num_atoms, i, j)
                   = At(out.res.L, hp.num_atoms, i, j) + 1
              /\ RLe(RInt(At(out.res.L, hp.num_atoms, i, j)),
                     At(out.res.b, hp.num_atoms, i, j))
              /\ RLe(At(out.res.b, hp.num_atoms, i, j),
                     RInt(At(out.res.u, hp.num_atoms, i, j)))
    /\ SplitExample =>
          /\ At(out.res.t_z, 51, 0, 25) = One
          /\ At(out.res.b, 51, 0, 25) = <<55, 2>>
          /\ \A j \in AtomIndices :
                At(out.res.proj_dist, 51, 0, j)
                  = (IF j \in {27, 28} THEN Half ELSE Zero)

\* the call of the example has returned
C8_Witness == SplitExample

\* C9: double-Q selection. For every row i the next action is an action of
\* greatest expected value under the online network at next_states[i], and
\* the target distribution of the row is the one the target network gives
\* to that action, also where the target network's own best action differs.
C9_DoubleQ ==
    LossReturned =>
        \A i \in RowIndices :
            LET obs == out.batch.next_states[i + 1]
                a == out.res.next_actions[i + 1]
                q == forward_q(out.pre_actor, hp, obs)
            IN  /\ a \in Actions
                /\ \A c \in Actions : RLe(q[c], q[a])
                /\ \A k \in AtomIndices :
                      At(out.res.target_q_dist, hp.num_atoms, i, k)
                        = forward_dist(out.pre_target, hp, obs)[a][k]

\* a returned call with a row where the target network prefers another
\* action, whose distribution differs from the one used
C9_Witness ==
    /\ LossReturned
    /\ \E i \in RowIndices :
          LET obs == out.batch.next_states[i + 1]
              a == out.res.next_actions[i + 1]
              qt == forward_q(out.pre_target, hp, obs)
              dt == forward_dist(out.pre_target, hp, obs)
          IN  \E c \in Actions :
                  /\ c # a
                  /\ RLt(qt[a], qt[c])
                  /\ dt[c] # dt[a]

\* Row i of the flattened proj_dist
RowSlots(i) == (i * hp.num_atoms)..(i * hp.num_atoms + hp.num_atoms - 1)

\* C23: index bounds of the projection. For num_atoms >= 2 and a batch of
\* batch_size transitions, t_z lies in [v_min, v_max], and after the boundary
\* correction every pair (L, u) satisfies 0 <= L, u = L + 1 and
\* u <= num_atoms - 1; the two index_add_ calls therefore write the mass of
\* row i into row i of proj_dist only, never outside the support nor into
\* another row, and the call does not raise.
C23_IndexBounds ==
    (out.op = "_dqn_loss" /\ BatchLen(out.batch) = hp.batch_size) =>
        /\ out.res.status = "ok"
        /\ Len(out.res.proj_dist) = BatchLen(out.batch) * hp.num_atoms
        /\ \A i \in RowIndices : \A k \in AtomIndices :
              /\ RLe(hp.v_min, At(out.res.t_z, hp.num_atoms, i, k))
              /\ RLe(At(out.res.t_z, hp.num_atoms, i, k), hp.v_max)
              /\ 0 <= At(out.res.L, hp.num_atoms, i, k)
              /\ At(out.res.u, hp.num_atoms, i, k)
                    = At(out.res.L, hp.num_atoms, i, k) + 1
              /\ At(out.res.u, hp.num_atoms, i, k) <= hp.num_atoms - 1
              /\ At(out.res.L, hp.num_atoms, i, k)
                    + offset(hp, BatchLen(out.batch), i) \in RowSlots(i)
              /\ At(out.res.u, hp.num_atoms, i, k)
                    + offset(hp, BatchLen(out.batch), i) \in RowSlots(i)

\* a returned call on two transitions whose second row has a reward above
\* v_max, clamped onto the last atom (u = num_atoms - 1), and whose first row
\* has a target atom on v_min (L = 0)
C23_Witness ==
    /\ LossReturned
    /\ BatchLen(out.batch) = 2
    /\ RLt(hp.v_max, out.batch.rewards[2])
    /\ \A k \in AtomIndices :
          /\ At(out.res.t_z, hp.num_atoms, 1, k) = hp.v_max
          /\ At(out.res.u, hp.num_atoms, 1, k) = hp.num_atoms - 1
    /\ \E k \in AtomIndices :
          /\ At(out.res.t_z, hp.num_atoms, 0, k) = hp.v_min
          /\ At(out.res.L, hp.num_atoms, 0, k) = 0

\* The reward of row i clamped to [v_min, v_max]
ClampedReward(i) == clamp(out.batch.rewards[i + 1], hp.v_min, hp.v_max)

\* Row i of proj_dist has all its mass, which is 1, on the atoms L and L + 1
MassOn(i, L) ==
    /\ \A d \in AtomIndices \ {L, L + 1} :
          At(out.res.proj_dist, hp.num_atoms, i, d) = Zero
    /\ RAdd(At(out.res.proj_dist, hp.num_atoms, i, L),
            At(out.res.proj_dist, hp.num_atoms, i, L + 1)) = One

\* C24: terminal transitions do not bootstrap. For a row with done = 1 of a
\* batch of batch_size transitions every target atom position is
\* clamp(reward, v_min, v_max), whatever gamma and the support are, and the
\* whole mass of the projected row lies on the one or two atoms next to the
\* clamped reward, whatever the target network's distribution is.
C24_TerminalNoBootstrap ==
    LossReturned =>
        \A i \in RowIndices :
            out.batch.dones[i + 1] = 1 =>
                /\ \A k \in AtomIndices :
                      At(out.res.t_z, hp.num_atoms, i, k) = ClampedReward(i)
                /\ \E L \in 0..(hp.num_atoms - 2) :
                      /\ RLe(support(hp)[L], ClampedReward(i))
                      /\ RLe(ClampedReward(i), support(hp)[L + 1])
                      /\ MassOn(i, L)

\* a returned call with gamma = 1/2 and a terminal row whose reward lies
\* strictly between two atoms, its projected mass on both of them, the target
\* distribution of the row spread over more than one atom
C24_Witness ==
    /\ LossReturned
    /\ out.gamma = Half
    /\ \E i \in RowIndices :
          /\ out.batch.dones[i + 1] = 1
          /\ \E L \in 0..(hp.num_atoms - 2) :
                /\ RLt(support(hp)[L], ClampedReward(i))
                /\ RLt(ClampedReward(i), support(hp)[L + 1])
                /\ At(out.res.proj_dist, hp.num_atoms, i, L) # Zero
                /\ At(out.res.proj_dist, hp.num_atoms, i, L + 1) # Zero
          /\ \E k1 \in AtomIndices : \E k2 \in AtomIndices \ {k1} :
                /\ At(out.res.target_q_dist, hp.num_atoms, i, k1) # Zero
                /\ At(out.res.target_q_dist, hp.num_atoms, i, k2) # Zero

----------------------------------------------------------------------------
(* Properties of learn (SpecLearn) *)

\* A learn call that returned
LearnReturned == out.op = "learn" /\ out.res.status = "ok"

\* The one-step loss and the n-step loss of the call, each computed on its
\* own from the networks as they were when learn was called
OneStepLoss ==
    _dqn_loss(out.pre_actor, out.pre_target, hp, out.batch, hp.gamma).elementwise_loss

NStepLoss ==
    _dqn_loss(out.pre_actor, out.pre_target, hp, out.n_batch,
              RPow(hp.gamma, hp.n_step)).elementwise_loss

\* C10: blending policy of learn, with and without prioritized replay. With
\* combined_reward and an n-step batch the per-transition loss is the sum,
\* transition by transition, of the one-step loss (gamma) and the n-step loss
\* (gamma^n_step); without combined_reward and with an n-step batch it is the
\* n-step loss alone; with no n-step batch it is the one-step loss alone,
\* whatever combined_reward is.
C10_Blending ==
    LearnReturned =>
        /\ Len(out.res.elementwise_loss) = hp.batch_size
        /\ (out.n_step /\ hp.combined_reward) =>
              \A one \in {OneStepLoss} : \A nst \in {NStepLoss} :
                  /\ Len(one) = hp.batch_size
                  /\ Len(nst) = hp.batch_size
                  /\ \A i \in 1..hp.batch_size :
                        out.res.elementwise_loss[i] = RAdd(one[i], nst[i])
        /\ (out.n_step /\ ~hp.combined_reward) =>
              out.res.elementwise_loss = NStepLoss
        /\ (~out.n_step) =>
              out.res.elementwise_loss = OneStepLoss

\* a returned prioritized call with combined_reward and an n-step batch
\* whose two losses differ and are both non-zero, with gamma^n_step # gamma
C10_Witness ==
    /\ LearnReturned
    /\ out.n_step /\ out.per /\ hp.combined_reward
    /\ RPow(hp.gamma, hp.n_step) # hp.gamma
    /\ \E one \in {OneStepLoss} : \E nst \in {NStepLoss} :
       \E i \in 1..hp.batch_size :
          /\ one[i] # nst[i]
          /\ one[i] # Zero
          /\ nst[i] # Zero

\* The per-transition loss of the call after blending, recomputed from the
\* one-step and the n-step loss of the networks as they were before the call
TotalLoss ==
    IF out.n_step /\ hp.combined_reward
    THEN CHOOSE t \in { [i \in 1..Len(one) |-> RAdd(one[i], nst[i])] :
                          one \in {OneStepLoss}, nst \in {NStepLoss} } : TRUE
    ELSE IF out.n_step THEN NStepLoss
    ELSE OneStepLoss

\* sum over the batch of w[i] * x[i]
WeightedSum(w, x, n) == RSum([i \in 1..n |-> RMul(w[i], x[i])], n)

\* C21: batch reduction order. With prioritized replay the scalar loss learn
\* returns is the mean over the batch of weights[i] * total_loss[i], where
\* total_loss[i] is the blended per-transition loss (one-step plus n-step when
\* combined_reward is set): the importance weight multiplies the sum, once.
\* Without prioritized replay it is the unweighted mean of total_loss.
C21_BatchReduction ==
    LearnReturned =>
        \A total \in {TotalLoss} :
            /\ Len(total) = hp.batch_size
            /\ out.ret[1] =
                 IF out.per
                 THEN RDiv(WeightedSum(out.weights, total, Len(total)),
                           RInt(Len(total)))
                 ELSE RDiv(RSum(total, Len(total)), RInt(Len(total)))

\* a returned prioritized call with combined_reward and an n-step batch, both
\* losses non-zero, whose weights make the weighted mean differ from the plain
\* mean
C21_Witness ==
    /\ LearnReturned
    /\ out.per /\ out.n_step /\ hp.combined_reward
    /\ \E total \in {TotalLoss} :
          /\ out.ret[1] # RDiv(RSum(total, Len(total)), RInt(Len(total)))
          /\ \E one \in {OneStepLoss} : \E nst \in {NStepLoss} :
             \E i \in 1..Len(total) :
                 one[i] # Zero /\ nst[i] # Zero /\ out.weights[i] # One

----------------------------------------------------------------------------
(* Properties of _dqn_loss and the configured batch_size (SpecLoss) *)

\* Transition i (from 1) of a batch, as a batch of its own
RowBatch(batch, i) ==
    [states |-> <<batch.states[i]>>, actions |-> <<batch.actions[i]>>,
     rewards |-> <<batch.rewards[i]>>, next_states |-> <<batch.next_states[i]>>,
     dones |-> <<batch.dones[i]>>]

\* The loss of transition i of the call, computed for that transition alone
RowLoss(i) ==
    _dqn_loss(out.pre_actor, out.pre_target, [hp EXCEPT !.batch_size = 1],
              RowBatch(out.batch, i), out.gamma).elementwise_loss[1]

\* C11: _dqn_loss accepts a batch of any size B >= 1, whatever the agent's
\* batch_size is: it returns a loss vector of exactly B entries, and entry i
\* is the loss of transition i alone.
C11_AnyBatchSize ==
    (out.op = "_dqn_loss") =>
        /\ out.res.status = "ok"
        /\ Len(out.res.elementwise_loss) = BatchLen(out.batch)
        /\ \A i \in 1..BatchLen(out.batch) :
              out.res.elementwise_loss[i] = RowLoss(i)

----------------------------------------------------------------------------
(* Properties of the agent's operations (SpecAgent) *)

Legal(i) == {a \in Actions : out.ret.action_mask[i][a] = 1}

\* The values of the online network for observation i of the call
ActionValues(i) == forward_q(out.pre_actor, hp, out.ret.states[i])

\* C15: get_action with an action_mask never returns an illegal action: for
\* every row with a legal action the index returned is legal and its value
\* is the greatest among the legal actions of the row, also when an illegal
\* action has the highest value; without a mask the index returned has the
\* greatest value among all actions.
C15_MaskedArgmax ==
    (out.op = "get_action") =>
        \A i \in 1..Len(out.ret.states) :
            LET a == out.ret.action[i]
                q == ActionValues(i)
            IN  IF out.ret.action_mask = NoMask
                THEN a \in Actions /\ \A c \in Actions : RLe(q[c], q[a])
                ELSE (Legal(i) # {}) =>
                        a \in Legal(i) /\ \A c \in Legal(i) : RLe(q[c], q[a])

\* a masked call with a row whose illegal action has the highest value
C15_Witness ==
    /\ out.op = "get_action"
    /\ out.ret.action_mask # NoMask
    /\ \E i \in 1..Len(out.ret.states) :
          /\ Legal(i) # {}
          /\ \E c \in Actions \ Legal(i) :
                RLt(ActionValues(i)[out.ret.action[i]], ActionValues(i)[c])

\* C16: priority feedback of learn. With per=True the new priority returned
\* for transition i is the unweighted per-transition loss[i] plus prior_eps,
\* a strictly positive number, and the indices returned are those supplied
\* with the batch; with per=False the priorities returned are None.
C16_PriorityFeedback ==
    LearnReturned =>
        IF out.per
        THEN /\ out.ret[2] = out.idxs
             /\ Len(out.ret[3]) = Len(out.res.elementwise_loss)
             /\ \A i \in 1..Len(out.ret[3]) :
                   /\ out.ret[3][i] = RAdd(out.res.elementwise_loss[i], hp.prior_eps)
                   /\ RLt(Zero, out.ret[3][i])
        ELSE out.ret[3] = None

\* a returned prioritized call with a transition of non-zero loss whose
\* importance weight is not 1
C16_Witness ==
    /\ LearnReturned
    /\ out.per
    /\ \E i \in 1..Len(out.ret[3]) :
          /\ out.weights[i] # One
          /\ out.res.elementwise_loss[i] # Zero

\* The names of the statements of the call, in the order they ran
StepNames == [i \in 1..Len(out.steps) |-> out.steps[i].step]

\* C18: one successful learn call runs, in this order and once each, the
\* loss computation, zero_grad, backward, the clipping of the online
\* network's gradient norm, the optimizer step, soft_update, reset_noise on
\* the online network and reset_noise on the target network, in each of the
\* four (per, n_step) modes; soft_update reads the online parameters the
\* optimizer step has left.
C18_LearnOrder ==
    LearnReturned =>
        /\ StepNames = << "elementwise_loss", "optimizer.zero_grad", "loss.backward",
                          "clip_grad_norm_", "optimizer.step", "soft_update",
                          "actor.reset_noise", "actor_target.reset_noise" >>
        /\ actor = out.steps[8].actor
        /\ actor_target = out.steps[8].actor_target
        /\ out.steps[4].actor = out.pre_actor
        /\ out.steps[6].actor_target
             = soft_update(out.steps[5].actor, out.pre_target, hp)

\* a returned prioritized n-step call whose optimizer step moved the online
\* parameters, with a tau that lets soft_update see the difference
C18_Witness ==
    /\ LearnReturned
    /\ out.per /\ out.n_step
    /\ out.steps[5].actor.params # out.pre_actor.params
    /\ hp.tau = Half
    /\ out.steps[6].actor_target # soft_update(out.pre_actor, out.pre_target, hp)

\* The statement of a learn call that has run when its i-th recorded state
\* was taken, and the networks it started from
Before(start, steps, i) == IF i = 1 THEN start ELSE steps[i - 1]

\* One operation on the agent respects the ownership of the parameters
OwnershipStep ==
    LET start == [actor |-> actor, actor_target |-> actor_target]
    IN  /\ out'.op \in {"get_action", "_dqn_loss"} =>
              /\ actor'.params = actor.params
              /\ actor_target'.params = actor_target.params
        /\ out'.op = "soft_update" => actor'.params = actor.params
        /\ out'.op = "learn" =>
              /\ actor' = out'.steps[Len(out'.steps)].actor
              /\ actor_target' = out'.steps[Len(out'.steps)].actor_target
              /\ \A i \in 1..Len(out'.steps) :
                    /\ out'.steps[i].actor.params
                          # Before(start, out'.steps, i).actor.params
                       => out'.steps[i].step = "optimizer.step"
                    /\ out'.steps[i].actor_target.params
                          # Before(start, out'.steps, i).actor_target.params
                       => out'.steps[i].step = "soft_update"

\* C19: parameter ownership. Among get_action, _dqn_loss, soft_update and
\* learn, the target network's parameters change only in soft_update (called
\* alone or as the soft_update statement of learn) and the online network's
\* parameters change only in the optimizer step of learn: get_action,
\* _dqn_loss and soft_update leave the online parameters as they are,
\* get_action, _dqn_loss and every statement of learn but soft_update leave
\* the target parameters as they are.
C19_ParameterOwnership == [][OwnershipStep]_vars

\* a learn call whose optimizer step changed the online parameters and whose
\* soft_update changed the target parameters to something else
C19_Witness ==
    /\ LearnReturned
    /\ actor.params # out.pre_actor.params
    /\ actor_target.params # out.pre_target.params
    /\ actor_target.params # actor.params

\* C20: a learn call whose loss computation raises ends with that error and
\* has no effect: no optimizer step, no soft_update and no reset_noise, the
\* online and the target network are as they were before the call.
C20_FailedLearnNoEffect ==
    (out.op = "learn" /\ out.res.status # "ok") =>
        /\ actor = out.pre_actor
        /\ actor_target = out.pre_target
        /\ StepNames = <<"elementwise_loss">>
        /\ out.ret = <<>>

\* a call that raised in the n-step loss after the one-step loss was
\* computed, on networks that differ
C20_Witness ==
    /\ out.op = "learn"
    /\ out.res.status = "IndexError"
    /\ out.n_step /\ hp.combined_reward
    /\ BatchLen(out.batch) = hp.batch_size
    /\ BatchLen(out.n_batch) # hp.batch_size
    /\ actor.params # actor_target.params

----------------------------------------------------------------------------
(* Properties of the construction (SpecInit) *)

\* A call of RainbowDQN(...) has ended
Constructing == out.op = "__init__"

\* The hyperparameters the configuration errors are about
InvalidArgs(args) ==
    \/ args.num_atoms < 1
    \/ RLt(args.v_max, args.v_min)
    \/ RLe(args.tau, Zero)
    \/ RLe(args.lr, Zero)
    \/ RLe(args.prior_eps, Zero)

\* C13: construction fails at once, leaving no agent, whenever num_atoms < 1,
\* v_max < v_min, tau <= 0, lr <= 0 or prior_eps <= 0, and the failure comes
\* before any network, target copy or optimizer is created.
C13_ConstructionFailsFast ==
    (Constructing /\ InvalidArgs(out.ret.args)) =>
        /\ out.res.status # "ok"
        /\ hp = NoAgent
        /\ out.ret.created \cap {"actor", "actor_target", "optimizer"} = {}

\* a construction refused for its tau alone
C13_Witness ==
    /\ Constructing
    /\ out.ret.args.tau = Zero
    /\ ArgsAccepted([out.ret.args EXCEPT !.tau = Half])
    /\ out.ret.args.num_atoms > 1
    /\ out.res.status = "AssertionError"

\* C14: for every (v_min, v_max, num_atoms) the constructor accepts
\* (v_max >= v_min, num_atoms >= 1, num_atoms = 1 and v_max = v_min
\* included) construction succeeds, and the support has exactly num_atoms
\* strictly increasing entries from v_min to v_max, delta_z apart, with
\* delta_z = (v_max - v_min) / (num_atoms - 1).
C14_SupportOfEveryAccepted ==
    (Constructing /\ ArgsAccepted(out.ret.args)) =>
        LET args == out.ret.args
            z == out.ret.support
            n == args.num_atoms
        IN  /\ out.res.status = "ok"
            /\ DOMAIN z = 0..(n - 1)
            /\ z[0] = args.v_min
            /\ z[n - 1] = args.v_max
            /\ \A k \in 0..(n - 2) :
                  /\ RLt(z[k], z[k + 1])
                  /\ RSub(z[k + 1], z[k]) = out.ret.delta_z
            /\ (n > 1) =>
                  out.ret.delta_z = RDiv(RSub(args.v_max, args.v_min), RInt(n - 1))

\* C17: tau is fixed at construction and lies in (0, 1] in every agent that
\* construction accepts.
C17_TauInUnitInterval ==
    (Constructing /\ out.res.status = "ok") =>
        /\ hp.tau = out.ret.args.tau
        /\ RLt(Zero, hp.tau)
        /\ RLe(hp.tau, One)

====
